---- MODULE Spec2Model ----
(***************************************************************************)
(* Per-stream frame synchronisation of the video compositor:               *)
(* InputVideo in native/membrane_videocompositor/src/compositor/videos.rs. *)
(* One InputVideo is driven by its public operations upload_data, draw,    *)
(* remove_stale_frames, send_end_of_stream and is_frame_ready.             *)
(* Spec drives one InputVideo by these operations, PropsSpec drives its     *)
(* properties and texture transformations by update_properties, and        *)
(* SchedSpec drives two InputVideos by the ticks of the scheduler.         *)
(***************************************************************************)
EXTENDS Integers, Sequences, FiniteSets, TLC

\* ---------------------------------------------------------------- bounds
\* largest presentation timestamp fed to the stream
MaxPts == 2
\* largest number of messages held in the queue
MaxQueue == 3
\* largest size a stream's VideoProperties give its placement
MaxSize == 4
\* largest number of texture transformations of a stream
MaxChain == 3
\* largest number of frames a stream of the scheduler is fed, and of output
\* windows the scheduler is given
MaxFrames == 3
\* largest width and height of a YUVRenderTarget
MaxDim == 4

\* ------------------------------------------------------------ data model
\* Option<T>: None is the empty sequence, Some(x) the one-element sequence
None == << >>
Some(x) == << x >>
IsNone(o) == o = << >>
IsSome(o) == o # << >>
Unwrap(o) == o[1]

PtsSet == 0 .. MaxPts

\* the contents of an RGBATexture, as far as two frames can be told apart
Textures == {"t1", "t2"}

\* enum Message { Frame { pts, frame }, EndOfStream }
Frame(pts, frame) == [type |-> "Frame", pts |-> pts, frame |-> frame]
EndOfStream == [type |-> "EndOfStream"]
IsFrame(m) == m.type = "Frame"

\* enum DrawResult { Rendered(u64), NotRendered, EndOfStream }
Rendered(pts) == [tag |-> "Rendered", pts |-> pts]
NotRendered == [tag |-> "NotRendered"]
DrawEndOfStream == [tag |-> "EndOfStream"]

\* frame_interval: Option<(u64, u64)>
Intervals == {None} \cup {Some(w) : w \in {x \in PtsSet \X PtsSet : x[1] <= x[2]}}
\* last_rendered_pts: Option<u64>
LastRendered == {None} \cup {Some(p) : p \in PtsSet}

\* the streams of the scheduler
Streams == {"a", "b"}
\* the distance in pts of two frames of a stream and of two output windows
Period == 10
\* the pts of the frames fed to a stream of the scheduler
SchedPts == {Period * i : i \in 1 .. MaxFrames}
\* OutputWindow: None, or a window around the pts of a frame
SchedWindows ==
    {None} \cup {Some(<< Period * i - Period \div 2, Period * i + Period \div 2 >>) :
                    i \in 1 .. MaxFrames}

\* VideoProperties, as far as a transformation reads and changes them: the
\* size of the placement
Properties == 0 .. MaxSize
\* the transformations by name
Kinds == {"crop", "round"}
\* TextureTransformationUniform as its constructor leaves it: video_size is
\* the size update_video_properties stores in it
Uniform(kind) == [kind |-> kind, video_size |-> 0]
\* Vec<TextureTransformationUniform> as a caller hands it over
Chains == UNION {[1 .. n -> {Uniform(k) : k \in Kinds}] : n \in 0 .. MaxChain}

VARIABLES
    video,      \* the InputVideo: frames, previous_frame, was_just_added
    fed,        \* feeder: the pts of the last frame handed to upload_data
    drawn,      \* observer: the pts of the last DrawResult::Rendered
    panicked,   \* an unwrap() was reached on a None
    call,       \* observer: the last operation, its arguments and its result
    layout,     \* the InputVideo: properties, texture_transformations
    videos,     \* scheduler: the InputVideo of every stream
    window,     \* scheduler: the window of the last tick
    tick,       \* observer: the last step of the scheduler and its outcome
    target,     \* the YUVRenderTarget: width, height, framebuffers
    reading     \* observer: the last YUVRenderTarget::read and what it wrote

streamvars == << video, fed, drawn, panicked, call, layout >>
schedvars == << videos, window, tick >>
yuvvars == << target, reading >>
vars == << video, fed, drawn, panicked, call, layout, videos, window, tick,
           target, reading >>

\* ------------------------------------------------------------ operations
\* InputVideo::new
NewVideo == [frames |-> << >>, previous_frame |-> None, was_just_added |-> TRUE]

\* InputVideo::front_pts
front_pts(v) ==
    IF Len(v.frames) > 0 /\ IsFrame(Head(v.frames))
    THEN Some(Head(v.frames).pts)
    ELSE None

\* acceptance with >= in place of >
UploadAccepts_or_equal(pts, last_rendered_pts) ==
    IsNone(last_rendered_pts) \/ pts >= Unwrap(last_rendered_pts)

\* the condition of upload_data that accepts the frame into the queue
UploadAccepts(pts, last_rendered_pts) ==
    IsNone(last_rendered_pts) \/ pts > Unwrap(last_rendered_pts)

\* replacement with <= in place of <
UploadReplaces_or_equal(v, pts) ==
    /\ IsSome(v.previous_frame)
    /\ IsFrame(Unwrap(v.previous_frame))
    /\ Unwrap(v.previous_frame).pts <= pts

\* the condition under which a rejected frame replaces previous_frame
UploadReplaces(v, pts) ==
    /\ IsSome(v.previous_frame)
    /\ IsFrame(Unwrap(v.previous_frame))
    /\ Unwrap(v.previous_frame).pts < pts

\* InputVideo::upload_data (queue and fallback part)
upload_data(v, frame, pts, last_rendered_pts) ==
    IF UploadAccepts(pts, last_rendered_pts)
    THEN [v EXCEPT !.frames = Append(@, Frame(pts, frame))]
    ELSE IF UploadReplaces(v, pts)
         THEN [v EXCEPT !.previous_frame = Some(Frame(pts, frame))]
         ELSE v

\* upload_data: the unwrap of last_rendered_pts is evaluated only after
\* is_none() was false, and panics on a None
upload_data_panics(last_rendered_pts) ==
    IF IsNone(last_rendered_pts) THEN FALSE ELSE IsNone(last_rendered_pts)

\* InputVideo::send_end_of_stream
send_end_of_stream(v) == [v EXCEPT !.frames = Append(@, EndOfStream)]

\* InputVideo::pop_frame
pop_frame(v) ==
    IF Len(v.frames) = 0
    THEN v
    ELSE IF IsFrame(Head(v.frames))
         THEN [v EXCEPT !.frames = Tail(@), !.previous_frame = Some(Head(v.frames))]
         ELSE [v EXCEPT !.frames = Tail(@)]

\* staleness with >= in place of >
is_front_frame_too_old_or_equal(v, interval) ==
    IF Len(v.frames) > 0 /\ ~IsFrame(Head(v.frames))
    THEN FALSE
    ELSE IF IsNone(interval) \/ IsNone(front_pts(v))
         THEN FALSE
         ELSE IsSome(front_pts(v)) /\ Unwrap(interval)[1] >= Unwrap(front_pts(v))

\* InputVideo::is_front_frame_too_old
is_front_frame_too_old(v, interval) ==
    IF Len(v.frames) > 0 /\ ~IsFrame(Head(v.frames))
    THEN FALSE
    ELSE IF IsNone(interval) \/ IsNone(front_pts(v))
         THEN FALSE
         ELSE IsSome(front_pts(v)) /\ Unwrap(interval)[1] > Unwrap(front_pts(v))

\* the interval test of is_front_frame_too_old with its None guard missing
is_front_frame_too_old_panics_unguarded(v, interval) ==
    IF Len(v.frames) > 0 /\ ~IsFrame(Head(v.frames))
    THEN FALSE
    ELSE IF IsNone(front_pts(v))
         THEN FALSE
         ELSE IsNone(interval)

\* is_front_frame_too_old: the unwraps of interval and of front_pts() in its
\* last line are evaluated only after the early returns, and after
\* front_pts().is_some() held; each panics on a None
is_front_frame_too_old_panics(v, interval) ==
    IF Len(v.frames) > 0 /\ ~IsFrame(Head(v.frames))
    THEN FALSE
    ELSE IF IsNone(interval) \/ IsNone(front_pts(v))
         THEN FALSE
         ELSE IF IsSome(front_pts(v))
              THEN IsNone(interval) \/ IsNone(front_pts(v))
              ELSE FALSE

\* remove_stale_frames panics when one of its tests does
RECURSIVE remove_stale_frames_panics(_, _)
remove_stale_frames_panics(v, interval) ==
    IF is_front_frame_too_old_panics(v, interval)
    THEN TRUE
    ELSE IF is_front_frame_too_old(v, interval)
         THEN remove_stale_frames_panics(pop_frame(v), interval)
         ELSE FALSE

\* the loop as do-while: one pop before the first test
RECURSIVE remove_stale_frames_while(_, _)
remove_stale_frames_while(v, interval) ==
    IF is_front_frame_too_old(v, interval)
    THEN remove_stale_frames_while(pop_frame(v), interval)
    ELSE v

remove_stale_frames_do_while(v, interval) ==
    remove_stale_frames_while(pop_frame(v), interval)

\* InputVideo::remove_stale_frames
RECURSIVE remove_stale_frames(_, _)
remove_stale_frames(v, interval) ==
    IF is_front_frame_too_old(v, interval)
    THEN remove_stale_frames(pop_frame(v), interval)
    ELSE v

\* is_frame_ready: the unwraps of interval and of front_pts() are evaluated
\* only inside front_pts().is_some() and after the return on a None interval
is_frame_ready_panics(v, interval) ==
    IF Len(v.frames) > 0 /\ ~IsFrame(Head(v.frames))
    THEN FALSE
    ELSE IF IsSome(front_pts(v))
         THEN IF IsNone(interval)
              THEN FALSE
              ELSE IsNone(interval) \/ IsNone(front_pts(v))
         ELSE FALSE

\* is_frame_ready without the EndOfStream branch
is_frame_ready_no_eos(v, interval) ==
    IF IsSome(front_pts(v))
    THEN IF IsNone(interval)
         THEN TRUE
         ELSE IF /\ Unwrap(interval)[1] <= Unwrap(front_pts(v))
                 /\ Unwrap(front_pts(v)) <= Unwrap(interval)[2]
              THEN TRUE
              ELSE IF v.was_just_added THEN TRUE ELSE FALSE
    ELSE FALSE

\* is_frame_ready that takes an empty queue with a fallback frame as ready
is_frame_ready_or_fallback(v, interval) ==
    IF Len(v.frames) > 0 /\ ~IsFrame(Head(v.frames))
    THEN TRUE
    ELSE IF IsSome(front_pts(v))
         THEN IF IsNone(interval)
              THEN TRUE
              ELSE IF /\ Unwrap(interval)[1] <= Unwrap(front_pts(v))
                      /\ Unwrap(front_pts(v)) <= Unwrap(interval)[2]
                   THEN TRUE
                   ELSE IF v.was_just_added THEN TRUE ELSE FALSE
         ELSE IsSome(v.previous_frame)

\* is_frame_ready without the was_just_added branch
is_frame_ready_no_grace(v, interval) ==
    IF Len(v.frames) > 0 /\ ~IsFrame(Head(v.frames))
    THEN TRUE
    ELSE IF IsSome(front_pts(v))
         THEN IF IsNone(interval)
              THEN TRUE
              ELSE /\ Unwrap(interval)[1] <= Unwrap(front_pts(v))
                   /\ Unwrap(front_pts(v)) <= Unwrap(interval)[2]
         ELSE FALSE

\* InputVideo::is_frame_ready
is_frame_ready(v, interval) ==
    IF Len(v.frames) > 0 /\ ~IsFrame(Head(v.frames))
    THEN TRUE
    ELSE IF IsSome(front_pts(v))
         THEN IF IsNone(interval)
              THEN TRUE
              ELSE IF /\ Unwrap(interval)[1] <= Unwrap(front_pts(v))
                      /\ Unwrap(front_pts(v)) <= Unwrap(interval)[2]
                   THEN TRUE
                   ELSE IF v.was_just_added THEN TRUE ELSE FALSE
         ELSE FALSE

\* the early return taken for every frame beyond the window end
DrawTooNew_any_video(v, pts, frame_interval) ==
    /\ IsSome(frame_interval)
    /\ pts > Unwrap(frame_interval)[2]

\* the early return taken once the video is no longer just added
DrawTooNew_settled_video(v, pts, frame_interval) ==
    /\ IsSome(frame_interval)
    /\ pts > Unwrap(frame_interval)[2]
    /\ ~v.was_just_added

\* the early return of draw for a just-added video whose frame is 'too new'
DrawTooNew(v, pts, frame_interval) ==
    /\ IsSome(frame_interval)
    /\ pts > Unwrap(frame_interval)[2]
    /\ v.was_just_added

\* the match on previous_frame before the match on the queue front
draw_result_fallback_first(v, frame_interval) ==
    IF IsSome(v.previous_frame) /\ IsFrame(Unwrap(v.previous_frame))
    THEN Rendered(Unwrap(v.previous_frame).pts)
    ELSE IF Len(v.frames) > 0
         THEN IF IsFrame(Head(v.frames))
              THEN IF DrawTooNew(v, Head(v.frames).pts, frame_interval)
                   THEN NotRendered
                   ELSE Rendered(Head(v.frames).pts)
              ELSE DrawEndOfStream
         ELSE NotRendered

\* InputVideo::draw: the DrawResult
draw_result(v, frame_interval) ==
    IF Len(v.frames) > 0
    THEN IF IsFrame(Head(v.frames))
         THEN IF DrawTooNew(v, Head(v.frames).pts, frame_interval)
              THEN NotRendered
              ELSE Rendered(Head(v.frames).pts)
         ELSE DrawEndOfStream
    ELSE IF IsNone(v.previous_frame)
         THEN NotRendered
         ELSE IF IsFrame(Unwrap(v.previous_frame))
              THEN Rendered(Unwrap(v.previous_frame).pts)
              ELSE DrawEndOfStream

\* a draw that clears was_just_added whatever it returns
draw_clears_always(v, frame_interval) == [v EXCEPT !.was_just_added = FALSE]

\* a draw that pops the frame it rendered from the queue
draw_pops(v, frame_interval) ==
    IF draw_result(v, frame_interval).tag = "Rendered"
    THEN IF Len(v.frames) > 0
         THEN [pop_frame(v) EXCEPT !.was_just_added = FALSE]
         ELSE [v EXCEPT !.was_just_added = FALSE]
    ELSE v

\* InputVideo::draw: the video after the call
draw(v, frame_interval) ==
    IF draw_result(v, frame_interval).tag = "Rendered"
    THEN [v EXCEPT !.was_just_added = FALSE]
    ELSE v

\* --------------------------------------------------------------- actions
\* the feeder hands frames over with nondecreasing pts
\* TextureTransformation::update_video_properties: the transformation stores
\* the size it is given; a crop hands on half of it, a rounding of the
\* corners hands it on as it is
update_video_properties(t, properties) ==
    [uniform |-> [t EXCEPT !.video_size = properties],
     properties |-> IF t.kind = "crop" THEN properties \div 2 ELSE properties]

\* the fold that gives every transformation the stream's own properties
RECURSIVE update_texture_transformations_unchained(_, _)
update_texture_transformations_unchained(properties, texture_transformations) ==
    IF Len(texture_transformations) = 0
    THEN << >>
    ELSE << update_video_properties(Head(texture_transformations), properties).uniform >>
         \o update_texture_transformations_unchained(properties,
                                                     Tail(texture_transformations))

\* InputVideo::update_texture_transformations: every transformation in turn
\* is given the properties the one before it returned, the first one the
\* properties of the stream; the vector is returned
RECURSIVE update_texture_transformations(_, _)
update_texture_transformations(properties, texture_transformations) ==
    IF Len(texture_transformations) = 0
    THEN << >>
    ELSE LET r == update_video_properties(Head(texture_transformations), properties)
         IN  << r.uniform >>
             \o update_texture_transformations(r.properties,
                                               Tail(texture_transformations))

\* InputVideo::new, the layout it stores: the transformations are folded on
\* a copy and stored as they were given
NewLayout(properties, texture_transformations) ==
    [properties |-> properties, texture_transformations |-> texture_transformations]

\* self of update_properties: the fields of both halves of the InputVideo
InputVideo(v, l) ==
    [frames |-> v.frames, previous_frame |-> v.previous_frame,
     was_just_added |-> v.was_just_added,
     properties |-> l.properties,
     texture_transformations |-> l.texture_transformations]

\* an update_properties that builds the stream anew
update_properties_renews(self, properties, texture_transformations) ==
    [self EXCEPT
        !.was_just_added = TRUE,
        !.properties = properties,
        !.texture_transformations =
            IF IsSome(texture_transformations)
            THEN update_texture_transformations(properties, Unwrap(texture_transformations))
            ELSE update_texture_transformations(properties, self.texture_transformations)]

\* InputVideo::update_properties: Some(chain) is folded and stored, None
\* folds the stored chain again, both with the new properties
update_properties(self, properties, texture_transformations) ==
    [self EXCEPT
        !.properties = properties,
        !.texture_transformations =
            IF IsSome(texture_transformations)
            THEN update_texture_transformations(properties, Unwrap(texture_transformations))
            ELSE update_texture_transformations(properties, self.texture_transformations)]

\* FramebufferObject::new: a framebuffer of width x height one-byte pixels
FramebufferObject(width, height) == [width |-> width, height |-> height]

\* a render target whose chroma planes round the halved sides up
YUVRenderTarget_new_rounds_up(width, height) ==
    [width |-> width, height |-> height,
     framebuffers |-> << FramebufferObject(width, height),
                         FramebufferObject((width + 1) \div 2, (height + 1) \div 2),
                         FramebufferObject((width + 1) \div 2, (height + 1) \div 2) >>]

\* YUVRenderTarget::new: the Y plane and two planes of half the width and
\* half the height, by integer division
YUVRenderTarget_new(width, height) ==
    [width |-> width, height |-> height,
     framebuffers |-> << FramebufferObject(width, height),
                         FramebufferObject(width \div 2, height \div 2),
                         FramebufferObject(width \div 2, height \div 2) >>]

\* FramebufferObject::read_to_ptr: ReadPixels writes width x height bytes
\* from ptr on
read_to_ptr(fbo, ptr) == [offset |-> ptr, size |-> fbo.width * fbo.height]

\* YUVRenderTarget::read into a buffer of buffer_len bytes: the assertion,
\* then the three planes at 0, pixels_amount and pixels_amount * 5 / 4
read(self, buffer_len) ==
    LET pixels_amount == self.width * self.height IN
    IF buffer_len >= (pixels_amount * 3) \div 2
    THEN [panicked |-> FALSE,
          writes |-> << read_to_ptr(self.framebuffers[1], 0),
                        read_to_ptr(self.framebuffers[2], pixels_amount),
                        read_to_ptr(self.framebuffers[3], (pixels_amount * 5) \div 4) >>]
    ELSE [panicked |-> TRUE, writes |-> << >>]

InOrder(last_fed, pts) == IF IsNone(last_fed) THEN TRUE ELSE pts >= Unwrap(last_fed)

Init ==
    /\ video = NewVideo
    /\ fed = None
    /\ drawn = None
    /\ panicked = FALSE
    /\ call = [op |-> "new"]
    /\ layout = NewLayout(MaxSize, << >>)
    /\ videos = [s \in Streams |-> NewVideo]
    /\ window = None
    /\ tick = [op |-> "new"]
    /\ target = YUVRenderTarget_new(MaxDim, MaxDim)
    /\ reading = [op |-> "new"]

\* upload_data(.., data, pts, last_rendered_pts, ..); the frames come in order.
\* call.branch observes which of the three branches the call took.
UploadData(frame, pts, last) ==
    /\ InOrder(fed, pts)
    /\ Len(upload_data(video, frame, pts, last).frames) <= MaxQueue
    /\ video' = upload_data(video, frame, pts, last)
    /\ fed' = Some(pts)
    /\ panicked' = (panicked \/ upload_data_panics(last))
    /\ call' = [op |-> "upload_data",
                branch |-> IF Len(video'.frames) > Len(video.frames) THEN "queued"
                           ELSE IF video'.previous_frame # video.previous_frame
                                THEN "replaced" ELSE "dropped"]
    /\ UNCHANGED << drawn, layout, schedvars, yuvvars >>

SendEndOfStream ==
    /\ Len(video.frames) < MaxQueue
    /\ video' = send_end_of_stream(video)
    /\ call' = [op |-> "send_end_of_stream"]
    /\ UNCHANGED << fed, drawn, panicked, layout, schedvars, yuvvars >>

\* draw(.., frame_interval); call.ret is the DrawResult
Draw(interval) ==
    /\ video' = draw(video, interval)
    /\ drawn' = IF draw_result(video, interval).tag = "Rendered"
                THEN Some(draw_result(video, interval).pts)
                ELSE drawn
    /\ call' = [op |-> "draw", ret |-> draw_result(video, interval)]
    /\ UNCHANGED << fed, panicked, layout, schedvars, yuvvars >>

\* remove_stale_frames(interval); call.popped counts the frames it popped
RemoveStaleFrames(interval) ==
    /\ video' = remove_stale_frames(video, interval)
    /\ call' = [op |-> "remove_stale_frames",
                popped |-> Len(video.frames) - Len(video'.frames)]
    /\ panicked' = (panicked \/ remove_stale_frames_panics(video, interval))
    /\ UNCHANGED << fed, drawn, layout, schedvars, yuvvars >>

\* is_frame_ready(interval); call.ret is the answer
IsFrameReady(interval) ==
    /\ call' = [op |-> "is_frame_ready", ret |-> is_frame_ready(video, interval)]
    /\ panicked' = (panicked \/ is_frame_ready_panics(video, interval))
    /\ UNCHANGED << video, fed, drawn, layout, schedvars, yuvvars >>

Next ==
    \/ \E frame \in Textures, pts \in PtsSet, last \in LastRendered :
           UploadData(frame, pts, last)
    \/ SendEndOfStream
    \/ \E interval \in Intervals : Draw(interval)
    \/ \E interval \in Intervals : RemoveStaleFrames(interval)
    \/ \E interval \in Intervals : IsFrameReady(interval)

Spec == Init /\ [][Next]_vars

\* ------------------------------------------- the layout of one InputVideo
\* a stream as InputVideo::new leaves it, with any properties and chain
PropsInit ==
    /\ video = NewVideo
    /\ fed = None
    /\ drawn = None
    /\ panicked = FALSE
    /\ call = [op |-> "new"]
    /\ layout \in {NewLayout(p, c) : p \in Properties, c \in Chains}
    /\ videos = [s \in Streams |-> NewVideo]
    /\ window = None
    /\ tick = [op |-> "new"]
    /\ target = YUVRenderTarget_new(MaxDim, MaxDim)
    /\ reading = [op |-> "new"]

UpdateProperties(properties, texture_transformations) ==
    LET self == update_properties(InputVideo(video, layout), properties,
                                  texture_transformations)
    IN  /\ video' = [frames |-> self.frames, previous_frame |-> self.previous_frame,
                     was_just_added |-> self.was_just_added]
        /\ layout' = [properties |-> self.properties,
                      texture_transformations |-> self.texture_transformations]
        /\ call' = [op |-> "update_properties",
                    given |-> IsSome(texture_transformations)]
        /\ UNCHANGED << fed, drawn, panicked, schedvars, yuvvars >>

PropsNext ==
    \E properties \in Properties,
       texture_transformations \in {None} \cup {Some(c) : c \in Chains} :
        UpdateProperties(properties, texture_transformations)

PropsSpec == PropsInit /\ [][PropsNext]_vars

\* ------------------------------------------------------ YUVRenderTarget
\* the sides of a render target
Dims == 0 .. MaxDim
\* the lengths of the buffers handed to read: up to one byte more than the
\* largest target needs
BufferLens == 0 .. ((MaxDim * MaxDim * 3) \div 2 + 1)

\* a render target of any width and height
YuvInit ==
    /\ video = NewVideo
    /\ fed = None
    /\ drawn = None
    /\ panicked = FALSE
    /\ call = [op |-> "new"]
    /\ layout = NewLayout(MaxSize, << >>)
    /\ videos = [s \in Streams |-> NewVideo]
    /\ window = None
    /\ tick = [op |-> "new"]
    /\ target \in {YUVRenderTarget_new(w, h) : w \in Dims, h \in Dims}
    /\ reading = [op |-> "new"]

Read(buffer_len) ==
    LET r == read(target, buffer_len)
    IN  /\ reading' = [op |-> "read", buffer_len |-> buffer_len,
                       panicked |-> r.panicked, writes |-> r.writes]
        /\ UNCHANGED << target, streamvars, schedvars >>

YuvNext == \E buffer_len \in BufferLens : Read(buffer_len)

YuvSpec == YuvInit /\ [][YuvNext]_vars

\* ------------------------------------------------ the CompositionScheduler
\* the outcome of a tick for a stream no select_for_draw was called on
NotCalled == [tag |-> "NotCalled"]

\* one output tick over the streams vs with the window w: is_frame_ready on
\* every stream; if one is not ready the tick is given up; else draw on every
\* stream, then remove_stale_frames on every stream
scheduler_tick(vs, w) ==
    IF \A s \in Streams : is_frame_ready(vs[s], w)
    THEN [passed |-> TRUE,
          results |-> [s \in Streams |-> draw_result(vs[s], w)],
          videos |-> [s \in Streams |-> remove_stale_frames(draw(vs[s], w), w)]]
    ELSE [passed |-> FALSE,
          results |-> [s \in Streams |-> NotCalled],
          videos |-> vs]

\* the feeder of a stream keeps its contract: the pts grow, and nothing
\* follows the end of the stream
SchedInOrder(v, pts) ==
    /\ \A i \in 1 .. Len(v.frames) : IsFrame(v.frames[i]) /\ v.frames[i].pts < pts
    /\ IF IsSome(v.previous_frame) THEN Unwrap(v.previous_frame).pts < pts ELSE TRUE

\* the last output pts the pipeline hands to an enqueue: none, or the start
\* of the last window
SchedLast == IF IsNone(window) THEN {None} ELSE {None, Some(Unwrap(window)[1])}

\* the windows the provider may hand to the next tick: they do not go back
SchedNextWindows ==
    IF IsNone(window)
    THEN SchedWindows
    ELSE {w \in SchedWindows :
            IF IsNone(w) THEN FALSE ELSE Unwrap(w)[1] >= Unwrap(window)[1]}

Enqueue(s, pts, last) ==
    /\ SchedInOrder(videos[s], pts)
    /\ videos' = [videos EXCEPT ![s] = upload_data(@, "t1", pts, last)]
    /\ tick' = [op |-> "enqueue"]
    /\ UNCHANGED << window, streamvars, yuvvars >>

EndStream(s) ==
    /\ \A i \in 1 .. Len(videos[s].frames) : IsFrame(videos[s].frames[i])
    /\ videos' = [videos EXCEPT ![s] = send_end_of_stream(@)]
    /\ tick' = [op |-> "end_of_stream"]
    /\ UNCHANGED << window, streamvars, yuvvars >>

Tick(w) ==
    LET t == scheduler_tick(videos, w)
    IN  /\ videos' = t.videos
        /\ window' = w
        /\ tick' = [op |-> "tick", passed |-> t.passed, results |-> t.results,
                    popped |-> [s \in Streams |->
                                  Len(videos[s].frames) - Len(t.videos[s].frames)]]
        /\ UNCHANGED << streamvars, yuvvars >>

SchedTick == \E w \in SchedNextWindows : Tick(w)

SchedEnqueue(s) == \E pts \in SchedPts, last \in SchedLast : Enqueue(s, pts, last)

SchedNext ==
    \/ \E s \in Streams : SchedEnqueue(s)
    \/ \E s \in Streams : EndStream(s)
    \/ SchedTick

SchedSpec == Init /\ [][SchedNext]_vars

\* the scheduler keeps ticking, and every stream is fed while it has frames
SchedFairSpec ==
    /\ Init
    /\ [][SchedNext]_vars
    /\ WF_vars(SchedTick)
    /\ \A s \in Streams : WF_vars(SchedEnqueue(s))

\* ------------------------------------------------- the claims' vocabulary
\* the queue front is a Frame / is EndOfStream / the queue is empty
FrontIsFrame(v) == Len(v.frames) > 0 /\ Head(v.frames).type = "Frame"
FrontIsEndOfStream(v) == Len(v.frames) > 0 /\ Head(v.frames).type = "EndOfStream"
QueueEmpty(v) == Len(v.frames) = 0
FrontPts(v) == Head(v.frames).pts
\* the fallback holds a Frame
FallbackIsFrame(v) == Len(v.previous_frame) = 1 /\ v.previous_frame[1].type = "Frame"
FallbackPts(v) == v.previous_frame[1].pts
WindowStart(w) == w[1][1]
WindowEnd(w) == w[1][2]
HasWindow(w) == Len(w) = 1

TypeOK ==
    /\ Len(video.frames) <= MaxQueue
    /\ video.was_just_added \in BOOLEAN
    /\ \A i \in 1 .. Len(video.frames) :
          \/ video.frames[i] = EndOfStream
          \/ \E t \in Textures, p \in PtsSet : video.frames[i] = Frame(p, t)
    /\ \/ video.previous_frame = None
       \/ \E t \in Textures, p \in PtsSet : video.previous_frame = Some(Frame(p, t))

\* ---------------------------------------------------------------- claims
\* C1: is_frame_ready(window) answers true when the queue front is
\* EndOfStream, false when the queue is empty, and otherwise, with front pts p:
\* true when there is no window, true when start <= p <= end, true when
\* just_added holds (p below or above the window), and false in the
\* remaining case.
ReadyTable(v, w) ==
    IF FrontIsEndOfStream(v) THEN TRUE
    ELSE IF QueueEmpty(v) THEN FALSE
    ELSE \/ ~HasWindow(w)
         \/ (HasWindow(w) /\ WindowStart(w) <= FrontPts(v) /\ FrontPts(v) <= WindowEnd(w))
         \/ v.was_just_added

C1_IsFrameReadyTable ==
    \A w \in Intervals : is_frame_ready(video, w) = ReadyTable(video, w)

\* a just-added stream that has a fallback was asked and answered ready with
\* a front frame that only a window ending at MaxPts contains
C1_Witness ==
    /\ call.op = "is_frame_ready"
    /\ call.ret = TRUE
    /\ FrontIsFrame(video)
    /\ FrontPts(video) = MaxPts
    /\ video.was_just_added
    /\ FallbackIsFrame(video)

\* C2: draw returns, with a Frame of pts p at the front, NotRendered exactly
\* when the window ends before p and just_added holds, and otherwise
\* Rendered(p) with just_added cleared; with an empty queue Rendered(fallback
\* pts) when the fallback holds a frame and NotRendered when it does not; with
\* EndOfStream at the front, EndOfStream.
C2_DrawTable ==
    \A w \in Intervals :
        IF FrontIsFrame(video)
        THEN IF HasWindow(w) /\ FrontPts(video) > WindowEnd(w) /\ video.was_just_added
             THEN draw_result(video, w) = NotRendered
             ELSE /\ draw_result(video, w) = Rendered(FrontPts(video))
                  /\ ~draw(video, w).was_just_added
        ELSE IF QueueEmpty(video)
             THEN IF FallbackIsFrame(video)
                  THEN draw_result(video, w) = Rendered(FallbackPts(video))
                  ELSE draw_result(video, w) = NotRendered
             ELSE draw_result(video, w) = DrawEndOfStream

\* a draw rendered the front frame of a stream that also has a fallback
C2_Witness ==
    /\ call.op = "draw"
    /\ FrontIsFrame(video)
    /\ FallbackIsFrame(video)
    /\ call.ret = Rendered(FrontPts(video))
    /\ ~video.was_just_added

\* C3 as claimed: with one queued frame whose pts is beyond the window end,
\* draw returns Rendered(pts) while just_added holds and NotRendered once it
\* does not; without a window a just-added stream holding a frame never
\* returns NotRendered.
C3_GraceRendersBeyondWindow ==
    \A w \in Intervals :
        (Len(video.frames) = 1 /\ FrontIsFrame(video)) =>
            IF HasWindow(w)
            THEN (FrontPts(video) > WindowEnd(w) =>
                    IF video.was_just_added
                    THEN draw_result(video, w) = Rendered(FrontPts(video))
                    ELSE draw_result(video, w) = NotRendered)
            ELSE (video.was_just_added => draw_result(video, w) # NotRendered)

\* C3 as amended: with one queued frame whose pts is beyond the window end,
\* draw returns NotRendered while just_added holds and Rendered(pts) once it
\* does not; without a window a just-added stream holding a frame never
\* returns NotRendered.
C3_GraceSkipsBeyondWindow ==
    \A w \in Intervals :
        (Len(video.frames) = 1 /\ FrontIsFrame(video)) =>
            IF HasWindow(w)
            THEN (FrontPts(video) > WindowEnd(w) =>
                    IF video.was_just_added
                    THEN draw_result(video, w) = NotRendered
                    ELSE draw_result(video, w) = Rendered(FrontPts(video)))
            ELSE (video.was_just_added => draw_result(video, w) # NotRendered)

\* a draw of a just-added stream with a single queued frame returned
\* NotRendered: the window ended before the frame
C3_Witness ==
    /\ call.op = "draw"
    /\ call.ret = NotRendered
    /\ Len(video.frames) = 1
    /\ FrontIsFrame(video)
    /\ video.was_just_added

\* C4: upload_data appends the frame to the back of the queue if and only if
\* last_rendered_pts is None or pts > last_rendered_pts; in every other case
\* (equality included) the queue is unchanged. Stated for every pts, in order
\* or not.
C4_EnqueueIffAhead ==
    \A frame \in Textures, pts \in PtsSet, last \in LastRendered :
        LET after == upload_data(video, frame, pts, last) IN
        IF Len(last) = 0 \/ pts > last[1]
        THEN after.frames = video.frames \o << Frame(pts, frame) >>
        ELSE after.frames = video.frames

\* an upload was kept out of a queue that holds a frame of the same pts
C4_Witness ==
    /\ call.op = "upload_data"
    /\ call.branch # "queued"
    /\ Len(video.frames) > 0
    /\ video.frames[Len(video.frames)].type = "Frame"
    /\ video.frames[Len(video.frames)].pts = Unwrap(fed)

\* C5: a frame kept out of the queue replaces the fallback only if its pts is
\* strictly greater than the fallback frame's pts; with an equal or a smaller
\* pts it is dropped, and queue, fallback and just_added are unchanged; the
\* call does not fail. Stated for every pts, in order or not.
C5_LateFrameFallback ==
    \A frame \in Textures, pts \in PtsSet, last \in LastRendered :
        (Len(last) = 1 /\ pts <= last[1]) =>
            LET after == upload_data(video, frame, pts, last) IN
            /\ after.frames = video.frames
            /\ after.was_just_added = video.was_just_added
            /\ (after.previous_frame # video.previous_frame
                  => /\ FallbackIsFrame(video)
                     /\ pts > FallbackPts(video)
                     /\ after.previous_frame = << Frame(pts, frame) >>)
            /\ (FallbackIsFrame(video) /\ pts <= FallbackPts(video)
                  => after = video)
            /\ ~upload_data_panics(last)
            /\ ~panicked

\* a late frame with the pts of the fallback frame was dropped
C5_Witness ==
    /\ call.op = "upload_data"
    /\ call.branch = "dropped"
    /\ FallbackIsFrame(video)
    /\ FallbackPts(video) = Unwrap(fed)

\* C6: whenever upload_data keeps a frame out of the queue (pts <=
\* last_rendered_pts), the fallback afterwards holds a frame whose pts is >=
\* that frame's pts, also when the fallback was empty before the call.
C6_FallbackCoversLateFrame ==
    (call.op = "upload_data" /\ call.branch # "queued") =>
        (FallbackIsFrame(video) /\ FallbackPts(video) >= Unwrap(fed))

\* C7: remove_stale_frames(window) removes exactly the longest prefix of the
\* queue made of Frames with pts < window.start, leaves the last removed frame
\* in the fallback, keeps the rest of the queue in order and just_added as it
\* was; it removes nothing without a window, from an empty queue or with
\* EndOfStream at the front, and never removes an EndOfStream. Afterwards the
\* front is no Frame with pts < window.start.
IsStale(m, w) ==
    IF m.type = "Frame" /\ HasWindow(w) THEN m.pts < WindowStart(w) ELSE FALSE

IsStalePrefix(q, k, w) ==
    /\ \A i \in 1 .. k : IsStale(q[i], w)
    /\ (k < Len(q) => ~IsStale(q[k + 1], w))

C7_EvictStalePrefix ==
    \A w \in Intervals :
        LET after == remove_stale_frames(video, w) IN
        \E k \in 0 .. Len(video.frames) :
            /\ IsStalePrefix(video.frames, k, w)
            /\ after.frames = SubSeq(video.frames, k + 1, Len(video.frames))
            /\ after.previous_frame
                  = IF k = 0 THEN video.previous_frame ELSE << video.frames[k] >>
            /\ after.was_just_added = video.was_just_added
            /\ (FrontIsFrame(after) /\ HasWindow(w)
                  => FrontPts(after) >= WindowStart(w))

\* an eviction popped two frames and left a frame at the front of the queue
C7_Witness ==
    /\ call.op = "remove_stale_frames"
    /\ call.popped >= 2
    /\ FrontIsFrame(video)
    /\ FallbackIsFrame(video)
    /\ FallbackPts(video) < FrontPts(video)

\* C8: remove_stale_frames twice in a row with the same window leaves the
\* queue and the fallback that one call leaves.
C8_EvictIdempotent ==
    \A w \in Intervals :
        LET once == remove_stale_frames(video, w)
            twice == remove_stale_frames(once, w)
        IN  /\ twice.frames = once.frames
            /\ twice.previous_frame = once.previous_frame

\* an eviction popped a frame and stopped at an EndOfStream
C8_Witness ==
    /\ call.op = "remove_stale_frames"
    /\ call.popped >= 1
    /\ FrontIsEndOfStream(video)

\* C9: on a stream fed frames with nondecreasing pts, the pts of the fallback
\* frame never decreases across upload_data and remove_stale_frames calls.
C9_FallbackMonotonic ==
    [][FallbackIsFrame(video) =>
          (FallbackIsFrame(video') /\ FallbackPts(video') >= FallbackPts(video))]_vars

\* C10: on a stream fed frames with nondecreasing pts, the pts of
\* Rendered(pts) never decreases from one successful draw to the next,
\* whatever uploads, evictions and unsuccessful draws come between, and
\* whether the frame came from the queue front or from the fallback.
C10_DrawnPtsNondecreasing ==
    \A w \in Intervals :
        (draw_result(video, w).tag = "Rendered" /\ Len(drawn) = 1)
            => draw_result(video, w).pts >= drawn[1]

\* a stream that had drawn before drew its fallback frame, which a late upload
\* had put in place of an evicted frame
C10_Witness ==
    /\ call.op = "draw"
    /\ call.ret.tag = "Rendered"
    /\ QueueEmpty(video)
    /\ FallbackIsFrame(video)
    /\ drawn = << FallbackPts(video) >>
    /\ FallbackPts(video) = MaxPts
    /\ Unwrap(fed) = MaxPts

\* C11: just_added holds from the creation of the stream until the first draw
\* that returns Rendered, which clears it; nothing sets it again; a draw that
\* returns NotRendered or EndOfStream, upload_data, send_end_of_stream,
\* remove_stale_frames and update_properties leave it as it is.
C11_JustAddedUntilFirstRendered ==
    /\ (video.was_just_added <=> Len(drawn) = 0)
    /\ \A w \in Intervals :
          /\ draw(video, w).was_just_added
                = (video.was_just_added /\ draw_result(video, w).tag # "Rendered")
          /\ remove_stale_frames(video, w).was_just_added = video.was_just_added
    /\ \A frame \in Textures, pts \in PtsSet, last \in LastRendered :
          upload_data(video, frame, pts, last).was_just_added = video.was_just_added
    /\ send_end_of_stream(video).was_just_added = video.was_just_added
    /\ \A properties \in Properties,
          chain \in {None, Some(layout.texture_transformations)} :
          update_properties(InputVideo(video, layout), properties, chain).was_just_added
             = video.was_just_added

\* the first draw of a stream rendered its only frame and cleared just_added
C11_Witness ==
    /\ call.op = "draw"
    /\ Len(video.frames) = 1
    /\ FrontIsFrame(video)
    /\ ~FallbackIsFrame(video)
    /\ call.ret = Rendered(FrontPts(video))
    /\ drawn = << FrontPts(video) >>
    /\ ~video.was_just_added

\* C12: draw removes and reorders nothing: whatever it returns, the queue and
\* the fallback are the same after the call as before, and a second draw with
\* the same window returns what the first returned.
C12_DrawKeepsQueue ==
    \A w \in Intervals :
        LET after == draw(video, w) IN
        /\ after.frames = video.frames
        /\ after.previous_frame = video.previous_frame
        /\ draw_result(after, w) = draw_result(video, w)

\* a draw rendered the front frame of a full queue
C12_Witness ==
    /\ call.op = "draw"
    /\ Len(video.frames) = MaxQueue
    /\ FrontIsFrame(video)
    /\ call.ret = Rendered(FrontPts(video))

\* C13: with EndOfStream at the front of the queue, is_frame_ready is true for
\* every window and draw returns EndOfStream, and remove_stale_frames leaves
\* the EndOfStream at the front; draw returns EndOfStream only then, so never
\* while a Frame is ahead of the EndOfStream.
C13_EndOfStreamAtFront ==
    \A w \in Intervals :
        /\ FrontIsEndOfStream(video) =>
              /\ is_frame_ready(video, w)
              /\ draw_result(video, w) = DrawEndOfStream
              /\ remove_stale_frames(video, w) = video
        /\ draw_result(video, w) = DrawEndOfStream => FrontIsEndOfStream(video)

\* a draw returned EndOfStream on a stream whose frames were evicted before
C13_Witness ==
    /\ call.op = "draw"
    /\ call.ret = DrawEndOfStream
    /\ FrontIsEndOfStream(video)
    /\ FallbackIsFrame(video)

\* C14: the queue holds at most one EndOfStream, and it is the last message.
C14_EndOfStreamIsLast ==
    \A i \in 1 .. Len(video.frames) :
        video.frames[i].type = "EndOfStream" => i = Len(video.frames)

\* C19: no operation panics: upload_data unwraps last_rendered_pts only after
\* is_none() failed, is_front_frame_too_old unwraps the window and front_pts()
\* only after its early return on a None of either, and is_frame_ready unwraps
\* them only inside front_pts().is_some() and after its return on a None
\* window; this for an empty or non-empty queue, a Frame or an EndOfStream at
\* the front, a None or a Some window.
C19_NoPanic ==
    /\ ~panicked
    /\ \A last \in LastRendered : ~upload_data_panics(last)
    /\ \A w \in Intervals :
          /\ ~is_front_frame_too_old_panics(video, w)
          /\ ~remove_stale_frames_panics(video, w)
          /\ ~is_frame_ready_panics(video, w)

\* remove_stale_frames ran on a full queue with an EndOfStream behind frames
C19_Witness ==
    /\ call.op = "remove_stale_frames"
    /\ Len(video.frames) = MaxQueue
    /\ FrontIsFrame(video)
    /\ ~IsFrame(video.frames[Len(video.frames)])
    /\ ~panicked

\* the properties a folded transformation handed on, given those it stored
Handed(t) == update_video_properties(t, t.video_size).properties

\* result is given folded in declaration order from the properties p0
InDeclarationOrder(p0, given, result) ==
    /\ Len(result) = Len(given)
    /\ \A i \in 1 .. Len(given) :
          /\ result[i].kind = given[i].kind
          /\ result[i].video_size = (IF i = 1 THEN p0 ELSE Handed(result[i - 1]))

\* C18: update_texture_transformations applies the chain in declaration
\* order: the first transformation receives the properties of the stream,
\* every later one the properties the one before it returned, and the chain
\* returned has the same transformations in the same order and number; so
\* does the chain update_properties stores, for a given chain and for None.
C18_ChainInDeclarationOrder ==
    \A p0 \in Properties :
        /\ \A chain \in Chains :
              /\ InDeclarationOrder(p0, chain, update_texture_transformations(p0, chain))
              /\ InDeclarationOrder(p0, chain,
                    update_properties(InputVideo(video, layout), p0, Some(chain))
                        .texture_transformations)
        /\ InDeclarationOrder(p0, layout.texture_transformations,
              update_properties(InputVideo(video, layout), p0, None)
                  .texture_transformations)

\* update_properties stored a chain whose rounding follows a crop, and the
\* rounding was given the cropped size
C18_Witness ==
    /\ call.op = "update_properties"
    /\ call.given
    /\ Len(layout.texture_transformations) >= 2
    /\ layout.texture_transformations[1].kind = "crop"
    /\ layout.texture_transformations[2].kind = "round"
    /\ layout.texture_transformations[1].video_size = layout.properties
    /\ layout.texture_transformations[2].video_size # layout.properties

\* C15: the gate of the scheduler is all or nothing: whatever window a tick
\* is given, if one stream is not ready (by the table of is_frame_ready) the
\* tick passes no stream to select_for_draw or evict_stale and leaves every
\* stream's queue, fallback and just_added as they were; a tick that draws
\* and evicts found every stream ready.
C15_GateAllOrNothing ==
    /\ \A w \in SchedWindows :
          LET t == scheduler_tick(videos, w) IN
          /\ (\E s \in Streams : ~ReadyTable(videos[s], w) \/ ~is_frame_ready(videos[s], w))
                => /\ ~t.passed
                   /\ t.videos = videos
                   /\ \A s \in Streams : t.results[s] = NotCalled
          /\ t.passed => \A s \in Streams : t.results[s] # NotCalled
    /\ (tick.op = "tick" /\ ~tick.passed)
          => \A s \in Streams : tick.results[s] = NotCalled /\ tick.popped[s] = 0

\* a tick was given up with one stream ready and the other not
C15_Witness ==
    /\ tick.op = "tick"
    /\ ~tick.passed
    /\ is_frame_ready(videos["a"], window)
    /\ FrontIsFrame(videos["a"])
    /\ ~is_frame_ready(videos["b"], window)

\* C16 as claimed: evict_stale never pops a frame that was not at the front
\* of the queue during an earlier select_for_draw. Only the front of the queue
\* is ever before select_for_draw, and a frame behind it comes to the front
\* only by a pop, so the second frame a tick pops was never a candidate.
C16_EvictedWereCandidates ==
    tick.op = "tick" => \A s \in Streams : tick.popped[s] <= 1

\* C16: the frames a tick evicts from a stream are the frames at the head of
\* its queue with pts below window.start, however many; the first of them was
\* at the front during the select_for_draw of that tick, which rendered it;
\* the ones behind it are popped by the same evict_stale.
C16_FirstEvictedWasCandidate ==
    \A w \in SchedWindows :
        LET t == scheduler_tick(videos, w) IN
        t.passed =>
            \A s \in Streams :
                LET q == videos[s].frames
                    k == Len(q) - Len(t.videos[s].frames)
                IN  /\ IsStalePrefix(q, k, w)
                    /\ t.videos[s].frames = SubSeq(q, k + 1, Len(q))
                    /\ k >= 1 => t.results[s] = Rendered(q[1].pts)

\* a tick evicted two frames of a stream and had rendered the first
C16_Witness ==
    /\ tick.op = "tick"
    /\ tick.passed
    /\ \E s \in Streams :
          /\ tick.popped[s] = 2
          /\ FallbackIsFrame(videos[s])
          /\ tick.results[s].tag = "Rendered"
          /\ tick.results[s].pts < FallbackPts(videos[s])

\* the scenario: a just-added stream that enqueued frames with pts 10, 20, 30
ScenarioStream(v) ==
    /\ v.was_just_added
    /\ IsNone(v.previous_frame)
    /\ Len(v.frames) = 3
    /\ \A i \in 1 .. 3 : IsFrame(v.frames[i]) /\ v.frames[i].pts = 10 * i
ScenarioWindow == Some(<< 15, 25 >>)

\* the stream is ready with its front outside the window; the tick leaves 20
\* and 30 queued and 10 as the fallback; the next draw selects 20
ScenarioHolds(v) ==
    LET v1 == remove_stale_frames(draw(v, ScenarioWindow), ScenarioWindow) IN
    /\ is_frame_ready(v, ScenarioWindow)
    /\ FrontPts(v) < WindowStart(ScenarioWindow)
    /\ Len(v1.frames) = 2
    /\ v1.frames[1].pts = 20
    /\ v1.frames[2].pts = 30
    /\ FallbackIsFrame(v1)
    /\ FallbackPts(v1) = 10
    /\ draw_result(v1, ScenarioWindow) = Rendered(20)

\* the windows that may follow the window w
WindowsFrom(w) ==
    {w2 \in SchedWindows : IF HasWindow(w2) THEN WindowStart(w2) >= WindowStart(w) ELSE FALSE}
\* the queued frames with pts >= start
FramesFrom(q, start) ==
    {i \in 1 .. Len(q) : IF IsFrame(q[i]) THEN q[i].pts >= start ELSE FALSE}
EarliestFrom(q, start) == q[CHOOSE i \in FramesFrom(q, start) :
                               \A j \in FramesFrom(q, start) : i <= j].pts
\* the queue without its frames below start
KeptFrom(q, start) ==
    SelectSeq(q, LAMBDA m : IF IsFrame(m) THEN m.pts >= start ELSE TRUE)

\* C17 as claimed: the scenario, and in general: after a tick with window
\* (start, end) the next select_for_draw of a stream returns Rendered of the
\* earliest queued frame with pts >= start.
C17_NextDrawIsEarliestFromStart ==
    /\ \A s \in Streams : ScenarioStream(videos[s]) => ScenarioHolds(videos[s])
    /\ \A w \in SchedWindows :
          LET t == scheduler_tick(videos, w) IN
          (HasWindow(w) /\ t.passed) =>
              \A s \in Streams, w2 \in WindowsFrom(w) :
                  LET v1 == t.videos[s] IN
                  (is_frame_ready(v1, w2) /\ FramesFrom(v1.frames, WindowStart(w)) # {})
                      => draw_result(v1, w2)
                            = Rendered(EarliestFrom(v1.frames, WindowStart(w)))

\* C17: the scenario, and in general: a tick that passes the gate with window
\* (start, end) leaves of a queue everything but its frames below start; if a
\* frame is then at the front it is the earliest queued frame with
\* pts >= start, and the next select_for_draw returns Rendered of it, also
\* after further frames were enqueued, unless the stream is still just-added
\* and that pts lies beyond the end of the next window: then it returns
\* NotRendered.
C17_NextDrawAfterTick ==
    /\ \A s \in Streams : ScenarioStream(videos[s]) => ScenarioHolds(videos[s])
    /\ \A w \in SchedWindows :
          LET t == scheduler_tick(videos, w) IN
          (HasWindow(w) /\ t.passed) =>
              \A s \in Streams :
                  LET v1 == t.videos[s]
                      start == WindowStart(w)
                  IN  /\ v1.frames = KeptFrom(videos[s].frames, start)
                      /\ FrontIsFrame(v1) =>
                            /\ FrontPts(v1) = EarliestFrom(v1.frames, start)
                            /\ \A w2 \in WindowsFrom(w), pts \in SchedPts, last \in LastRendered :
                                  LET fed1 == IF SchedInOrder(v1, pts)
                                              THEN upload_data(v1, "t1", pts, last)
                                              ELSE v1
                                  IN  draw_result(fed1, w2)
                                        = IF v1.was_just_added /\ FrontPts(v1) > WindowEnd(w2)
                                          THEN NotRendered
                                          ELSE Rendered(FrontPts(v1))

\* the first tick of the scenario has passed: 10 was rendered and is the
\* fallback, 20 and 30 are queued
C17_Witness ==
    /\ tick.op = "tick"
    /\ tick.passed
    /\ window = ScenarioWindow
    /\ \E s \in Streams :
          /\ tick.results[s] = Rendered(10)
          /\ tick.popped[s] = 1
          /\ FallbackIsFrame(videos[s])
          /\ FallbackPts(videos[s]) = 10
          /\ Len(videos[s].frames) = 2
          /\ FrontIsFrame(videos[s])
          /\ FrontPts(videos[s]) = 20
          /\ draw_result(videos[s], ScenarioWindow) = Rendered(20)

\* a stream that has drawn once and whose front frame lies below the start
\* of the window of the last tick
StuckStream(s) ==
    /\ ~videos[s].was_just_added
    /\ FrontIsFrame(videos[s])
    /\ HasWindow(window)
    /\ FrontPts(videos[s]) < WindowStart(window)

\* C20: with windows that do not go back and streams that are fed frames of
\* growing pts, a stream that has drawn once and whose front frame has fallen
\* below window.start does not stay not-ready for ever: a later tick passes
\* the gate.
C20_StuckStreamRecovers ==
    \A s \in Streams : StuckStream(s) ~> (tick.op = "tick" /\ tick.passed)

\* no step of a feeder or of the scheduler takes a stream out of StuckStream:
\* an enqueue appends behind the front, and a tick is given up
StuckStreamStaysStuck ==
    [][\A s \in Streams : StuckStream(s) => StuckStream(s)']_vars

\* C21: in every tick that passes the gate each stream's queue is non-empty
\* when select_for_draw is called: a Rendered is the frame at the front of the
\* queue, never the fallback, and a NotRendered comes only from a just-added
\* stream whose front pts lies beyond the end of the window.
C21_GatedDrawHasQueue ==
    \A w \in SchedWindows :
        LET t == scheduler_tick(videos, w) IN
        t.passed =>
            \A s \in Streams :
                LET v == videos[s] IN
                /\ Len(v.frames) > 0
                /\ t.results[s].tag = "Rendered" =>
                      FrontIsFrame(v) /\ t.results[s].pts = FrontPts(v)
                /\ t.results[s] = NotRendered =>
                      /\ v.was_just_added
                      /\ FrontIsFrame(v)
                      /\ HasWindow(w)
                      /\ FrontPts(v) > WindowEnd(w)

\* a tick passed in which a stream holding a fallback rendered its front
\* frame and the other stream, just added, was not rendered
C21_Witness ==
    /\ tick.op = "tick"
    /\ tick.passed
    /\ \E s \in Streams :
          /\ FallbackIsFrame(videos[s])
          /\ FrontIsFrame(videos[s])
          /\ tick.popped[s] = 0
          /\ tick.results[s] = Rendered(FrontPts(videos[s]))
          /\ FallbackPts(videos[s]) < FrontPts(videos[s])
    /\ \E s \in Streams :
          /\ tick.results[s] = NotRendered
          /\ videos[s].was_just_added
          /\ FrontPts(videos[s]) > WindowEnd(window)

\* C22: in every tick that passes the gate with a window (start, end), a
\* stream that had drawn before and returns Rendered(p) has start <= p <= end;
\* a just-added stream that returns Rendered(p) has p <= end, so only its
\* first rendered frame can lie outside the window, and then below start.
C22_RenderedWithinWindow ==
    \A w \in SchedWindows :
        LET t == scheduler_tick(videos, w) IN
        (HasWindow(w) /\ t.passed) =>
            \A s \in Streams :
                t.results[s].tag = "Rendered" =>
                    /\ t.results[s].pts <= WindowEnd(w)
                    /\ ~videos[s].was_just_added => WindowStart(w) <= t.results[s].pts

\* a tick passed in which one stream rendered a frame inside the window and
\* the other, on its first draw, a frame below the start of the window
C22_Witness ==
    /\ tick.op = "tick"
    /\ tick.passed
    /\ HasWindow(window)
    /\ \E s \in Streams :
          /\ tick.results[s].tag = "Rendered"
          /\ WindowStart(window) <= tick.results[s].pts
          /\ tick.results[s].pts <= WindowEnd(window)
    /\ \E s \in Streams :
          /\ tick.results[s].tag = "Rendered"
          /\ tick.results[s].pts < WindowStart(window)
          /\ tick.popped[s] >= 1

\* C23: the chain stored in a stream is the one folded against the stream's
\* properties, after new as well as after update_properties, and
\* update_properties leaves the queue, the fallback and just_added as they
\* were.
C23_StoredChainIsFolded ==
    /\ layout.texture_transformations
          = update_texture_transformations(layout.properties,
                                           layout.texture_transformations)
    /\ \A properties \in Properties :
          \A chain \in {None} \cup {Some(c) : c \in Chains} :
              LET self == update_properties(InputVideo(video, layout), properties, chain)
              IN  /\ self.frames = video.frames
                  /\ self.previous_frame = video.previous_frame
                  /\ self.was_just_added = video.was_just_added

\* the bytes a write covers run from offset to End
WriteEnd(wr) == wr.offset + wr.size
Disjoint(a, b) == WriteEnd(a) <= b.offset \/ WriteEnd(b) <= a.offset

\* C24: for every width and height, odd ones too, read with a buffer of at
\* least width*height*3/2 bytes writes three planes at the offsets 0,
\* width*height and width*height*5/4 with the sizes width*height,
\* (width/2)*(height/2) and (width/2)*(height/2); no two of them overlap and
\* all end at or before byte width*height*3/2, so within the buffer; with a
\* shorter buffer read stops at the assertion and writes nothing.
C24_PlaneReadsWithinBuffer ==
    \A buffer_len \in BufferLens :
        LET r == read(target, buffer_len)
            w == target.width
            h == target.height
            needed == (w * h * 3) \div 2
        IN  /\ buffer_len < needed => r.panicked /\ r.writes = << >>
            /\ buffer_len >= needed =>
                  /\ ~r.panicked
                  /\ Len(r.writes) = 3
                  /\ r.writes[1] = [offset |-> 0, size |-> w * h]
                  /\ r.writes[2] = [offset |-> w * h, size |-> (w \div 2) * (h \div 2)]
                  /\ r.writes[3] = [offset |-> (w * h * 5) \div 4,
                                    size |-> (w \div 2) * (h \div 2)]
                  /\ \A i, j \in 1 .. 3 : i # j => Disjoint(r.writes[i], r.writes[j])
                  /\ \A i \in 1 .. 3 : WriteEnd(r.writes[i]) <= needed
                  /\ needed <= buffer_len

\* a target of odd width and odd height was read into a buffer of exactly
\* the length the assertion asks for
C24_Witness ==
    /\ reading.op = "read"
    /\ ~reading.panicked
    /\ target.width % 2 = 1
    /\ target.height % 2 = 1
    /\ target.width > 1
    /\ target.height > 1
    /\ reading.buffer_len = (target.width * target.height * 3) \div 2
    /\ Len(reading.writes) = 3
    /\ reading.writes[3].size > 0
====
